---- MODULE Spec2Model ----
(***************************************************************************)
(* State-machine diagram of FiberStateViewer                               *)
(* (src/src/components/FiberStateViewer.tsx): the layout computed by the   *)
(* useMemo callback (edge list, BFS depths, unvisited states, node         *)
(* positions, canvas extent) and the edge routing done while rendering.    *)
(*                                                                         *)
(* Spec runs one call of the component function as one step: the whole     *)
(* useMemo callback followed by the JSX. SpecBfs runs the same code one    *)
(* loop iteration at a time, so that the BFS queue, the visited set and    *)
(* the depths map can be observed between iterations; pc records the       *)
(* position. SpecUi mounts the component and then delivers pointer events, *)
(* clicks and host re-renders to it, each followed by the re-render React  *)
(* runs (useMemo keeps the layout while the definition prop is the same    *)
(* object). SpecPointer follows the pointer of the browser over the <g>    *)
(* elements, so that onMouseLeave and onMouseEnter arrive as one pointer   *)
(* move delivers them, while the host may pass another definition.         *)
(* SpecWide is Spec over fans and chains of more states, for tall columns. *)
(*                                                                         *)
(* SpecProvider is DataProvider (src/src/lib/DataProvider.tsx): its        *)
(* loading flag, the polling effect with its interval and the fetches in   *)
(* flight, kept in the record dataProvider.                                *)
(*                                                                         *)
(* Numbers that reach an SVG path are kept doubled (suffix 2), because     *)
(* (fromY + toY) / 2 and the parallel-edge offset (i - (k-1)/2) * 15 are   *)
(* half-integers in the code.                                              *)
(***************************************************************************)
EXTENDS Integers, Sequences, FiniteSets, TLC

\* ------------------------------------------------------------------ bounds
MaxStates == 3
MaxActions == 3
\* the step-by-step run takes smaller definitions
MaxStepStates == 2
MaxStepActions == 2
\* the mounted component is shown diagrams of one or two states with at most
\* MaxUiActions actions, and the host passes it at most MaxHostUpdates new
\* definition objects
MaxUiActions == 2
MaxHostUpdates == 1
\* DataProvider: at most MaxRefreshes fetches of one kind are in flight at a
\* time and autoUpdate is toggled at most MaxToggles times
MaxRefreshes == 2
MaxToggles == 2
\* the tall-column run takes fans and chains of up to MaxWideStates states
MaxWideStates == 5

\* Names of the declared states. Object.entries keeps insertion order and the
\* code compares names only for equality, so the keys of a definition with n
\* states are taken to be the first n names, in this order.
StateNamePool == <<"A", "B", "C", "D", "E", "F">>
\* A name that is never a key of states (unknown target, missing initialState).
Undeclared == "Z"
\* definition.initialState === undefined (the field is absent).
Undefined == "<undefined>"
\* useState<string | null>(null) and useState<Edge | null>(null): the null values.
\* An Edge object is known by <<the definition object it was built from, its index>>.
Null == "<null>"
NullEdge == <<>>
\* The pointer is in no <g> element, in the <g> of the node of a state, or in
\* the <g> of the edge with an index (React keys node.state and edge-idx).
NoPointer == [kind |-> "none", name |-> Null, idx |-> 0]
InNode(name) == [kind |-> "node", name |-> name, idx |-> 0]
InEdge(idx) == [kind |-> "edge", name |-> Null, idx |-> idx]
\* Event names. The code only copies eventName into the edge label, so the
\* j-th action of a state is given the j-th name.
EventNamePool == <<"go", "retry", "stop", "reset", "fail">>

\* ------------------------------------------------------- program constants
nodeWidth == 120
nodeHeight == 50
horizontalGap == 180
verticalGap == 80

VARIABLES
    definition,   \* the definition prop
    pc,           \* position of the layout pass / render
    edgeList,     \* Edge[] built from the actions
    queue,        \* BFS queue of {state, depth}
    visited,      \* Set<string>
    depths,       \* Map<string, number>, as the sequence of its entries in insertion order
    cursor,       \* index of stateNames.forEach in the unvisited pass
    nodes,        \* nodePositions
    width,        \* svgWidth
    height,       \* svgHeight
    routed,       \* what edges.map produced: one entry per edge with both nodes found
    threw,        \* rendering raised a TypeError
    defRef,       \* which object the definition prop is (object identity)
    memoDep,      \* the dependency useMemo keeps: the definition object of the last layout
    layoutRan,    \* the last render ran the useMemo callback
    hoveredState, \* useState: string | null
    hoveredEdge,  \* useState: Edge | null
    highlit,      \* isHovered of each element of routed, as last rendered
    onStateClick, \* the onStateClick prop is given
    event,        \* the event delivered last
    emitted,      \* the onStateClick calls made while handling that event
    enqueued,     \* entries put on the BFS queue so far (counted in the step-by-step run)
    depthWrites,  \* depths.set calls so far (counted in the step-by-step run)
    pointer,      \* the <g> element the browser has the pointer in, if any
    dataProvider  \* DataProvider: its useState cells, its refs, its timers and its fetches in flight

layoutVars == <<edgeList, queue, visited, depths, cursor, nodes, width, height>>

uiVars == <<defRef, memoDep, layoutRan, hoveredState, hoveredEdge, highlit, onStateClick, event, emitted,
            pointer>>

countVars == <<enqueued, depthWrites>>

\* everything of FiberStateViewer
viewerVars == <<definition, pc, layoutVars, routed, threw, uiVars, countVars>>

vars == <<definition, pc, edgeList, queue, visited, depths, cursor, nodes, width, height, routed, threw,
          defRef, memoDep, layoutRan, hoveredState, hoveredEdge, highlit, onStateClick, event, emitted,
          enqueued, depthWrites, pointer, dataProvider>>

\* ----------------------------------------------------------------- helpers
Range(s) == {s[i] : i \in 1..Len(s)}

MathMax(S) == CHOOSE m \in S : \A x \in S : x <= m

Abs(x) == IF x < 0 THEN -x ELSE x

RECURSIVE Concat(_)
Concat(ss) == IF ss = <<>> THEN <<>> ELSE Head(ss) \o Concat(Tail(ss))

\* -------------------------------------------------------- the input space
Keys(n) == SubSeq(StateNamePool, 1, n)

Targets(n) == Range(Keys(n)) \cup {Undeclared}

\* All actions of a definition with n states, in Object.entries order: a
\* sequence of <<index of the source state, target>> whose source index never
\* decreases.
IsFlatActions(f) == \A i \in 1..(Len(f) - 1) : f[i][1] <= f[i + 1][1]

ActionsOfState(f, k) ==
    LET own == SelectSeq(f, LAMBDA a : a[1] = k)
    IN  [j \in 1..Len(own) |-> [eventName |-> EventNamePool[j], target |-> own[j][2]]]

\* omit: states without actions carry no actions field at all
\* (hasActions = FALSE stands for stateDef.actions === undefined).
MakeDefinition(n, f, init, omit) ==
    [ initialState |-> init,
      states |-> [k \in 1..n |->
                    [ name |-> Keys(n)[k],
                      hasActions |-> ~(omit /\ ActionsOfState(f, k) = <<>>),
                      actions |-> ActionsOfState(f, k) ]] ]

\* def is one of the definitions with at most maxStates states and at most
\* maxActions actions (omit is only a choice when it changes something).
IsDefinitionWithin(def, maxStates, maxActions) ==
    \E n \in 0..maxStates, m \in 0..maxActions :
        \E f \in [1..m -> (1..n) \X Targets(n)] :
            /\ IsFlatActions(f)
            /\ \E init \in Targets(n) \cup {Undefined}, omit \in BOOLEAN :
                /\ (omit /\ {f[i][1] : i \in 1..m} = 1..n) = FALSE
                /\ def = MakeDefinition(n, f, init, omit)

IsDefinition(def) == IsDefinitionWithin(def, MaxStates, MaxActions)

\* The definitions shown to the mounted component: the states of UiStateNames
\* (or the first of them alone), every target declared, initialState the first
\* key, every state with an actions field.
UiStateNames == <<"A", "B">>

IsUiDefinition(def) ==
    \E n \in 1..Len(UiStateNames), m \in 0..MaxUiActions :
        \E f \in [1..m -> (1..n) \X Range(Keys(n))] :
            /\ IsFlatActions(f)
            /\ def = MakeDefinition(n, f, Keys(n)[1], FALSE)

\* The definitions of the tall-column run: initialState is the first key and
\* every other state is the target of one action of the initial state, the
\* target of one action of the state before it, or the target of no action.
WideChoices == {"init", "prev", "none"}

WideActionsFrom(n, c, s) ==
    LET idx == SelectSeq([k \in 1..n |-> k],
                         LAMBDA k : k >= 2 /\ ((c[k] = "init" /\ s = 1) \/ (c[k] = "prev" /\ s = k - 1)))
    IN  [j \in 1..Len(idx) |-> <<s, Keys(n)[idx[j]]>>]

WideActions(n, c) == Concat([s \in 1..n |-> WideActionsFrom(n, c, s)])

IsWideDefinition(def) ==
    \E n \in 1..MaxWideStates :
        \E c \in [2..n -> WideChoices] :
            def = MakeDefinition(n, WideActions(n, c), Keys(n)[1], FALSE)

\* ------------------------------------------------------------ graph builder
\* const stateNames = states.map(([name]) => name)
stateNamesOf(def) == [k \in 1..Len(def.states) |-> def.states[k].name]

\* (stateDef.actions || [])
ActionsOrEmpty(stateDef) == IF stateDef.hasActions THEN stateDef.actions ELSE <<>>

\* Mutant of IsValidTarget: the includes() test is left out.
IsValidTargetAny(stateNames, target) == TRUE

\* if (stateNames.includes(action.target))
IsValidTarget(stateNames, target) == target \in Range(stateNames)

\* edgeList.push({from: fromState, to: action.target, label: action.eventName}), per action
EdgesFrom(fromState, actions) ==
    [j \in 1..Len(actions) |->
        [from |-> fromState, to |-> actions[j].target, label |-> actions[j].eventName]]

\* the edges pushed for one state: its actions with a declared target, in order
EdgesOfState(stateNames, stateDef) ==
    EdgesFrom(stateDef.name,
              SelectSeq(ActionsOrEmpty(stateDef), LAMBDA a : IsValidTarget(stateNames, a.target)))

\* states.forEach over the entries, with stateNames at hand
EdgesOfStates(stateNames, states) ==
    Concat([k \in 1..Len(states) |-> EdgesOfState(stateNames, states[k])])

\* Mutant of BuildEdgeList: edgeList lives outside the useMemo callback and
\* keeps the edges of the layout before.
BuildEdgeListAppending(def) == edgeList \o EdgesOfStates(stateNamesOf(def), def.states)

\* edgeList after states.forEach
BuildEdgeList(def) == EdgesOfStates(stateNamesOf(def), def.states)

\* ------------------------------------------------------------ depths (Map)
DepthsHas(d, state) == \E i \in 1..Len(d) : d[i].state = state

DepthsGet(d, state) == d[CHOOSE i \in 1..Len(d) : d[i].state = state].depth

\* depths.set(state, depth) for a key; a new key is appended, an old key keeps its place
DepthsSet(d, state, depth) ==
    IF DepthsHas(d, state)
    THEN [i \in 1..Len(d) |-> IF d[i].state = state THEN [state |-> state, depth |-> depth] ELSE d[i]]
    ELSE Append(d, [state |-> state, depth |-> depth])

DepthsValues(d) == {d[i].depth : i \in 1..Len(d)}

\* ---------------------------------------------------------------- BFS loop
\* queue.shift()
QueueShift(q) == [item |-> Head(q), rest |-> Tail(q)]

\* edgeList.filter(e => e.from === state)
stateEdges(edges, state) == SelectSeq(edges, LAMBDA e : e.from = state)

\* {state: edge.to, depth: depth + 1}, per edge
QueueEntries(outEdges, depth) ==
    [j \in 1..Len(outEdges) |-> [state |-> outEdges[j].to, depth |-> depth + 1]]

\* Mutant of QueuePushTargets: the new entries go to the front (unshift for push).
QueueUnshiftTargets(q, outEdges, seen, depth) ==
    QueueEntries(SelectSeq(outEdges, LAMBDA e : e.to \notin seen), depth) \o q

\* stateEdges.forEach(edge => { if (!visited.has(edge.to)) queue.push({state: edge.to, depth: depth + 1}) })
QueuePushTargets(q, outEdges, seen, depth) ==
    q \o QueueEntries(SelectSeq(outEdges, LAMBDA e : e.to \notin seen), depth)

\* Mutant of UnvisitedDepth: an unvisited state is put two columns past the last.
UnvisitedDepthSkipping(d) == MathMax(DepthsValues(d)) + 2

\* (Math.max(...Array.from(depths.values())) || 0) + 1
\* depths always holds the initial queue entry when this is evaluated, so the
\* spread is never empty; x || 0 is x for every non-zero number and 0 for 0.
UnvisitedDepth(d) == MathMax(DepthsValues(d)) + 1

\* Mutant of BfsContinues: the visited test at the head of the loop body is left out.
BfsNeverContinues(seen, item) == FALSE

\* if (visited.has(state)) continue
BfsContinues(seen, item) == item.state \in seen

\* the body of the while loop once {state, depth} = item has been shifted off
BfsVisitItem(st, item, rest) ==
    IF BfsContinues(st.visited, item)
    THEN [st EXCEPT !.queue = rest]
    ELSE [ queue   |-> QueuePushTargets(rest, stateEdges(st.edges, item.state),
                                        st.visited \cup {item.state}, item.depth),
           visited |-> st.visited \cup {item.state},
           depths  |-> DepthsSet(st.depths, item.state, item.depth),
           edges   |-> st.edges ]

\* one iteration of while (queue.length > 0), on [queue, visited, depths, edges]
BfsIterate(st) == BfsVisitItem(st, QueueShift(st.queue).item, QueueShift(st.queue).rest)

\* const depths = new Map(); const visited = new Set(); const queue = [{state: initialState, depth: 0}]
BfsStart(def, edges) ==
    [ queue   |-> << [state |-> def.initialState, depth |-> 0] >>,
      visited |-> {},
      depths  |-> <<>>,
      edges   |-> edges ]

\* the while loop, run to its end
RECURSIVE BfsLoop(_)
BfsLoop(st) == IF st.queue = <<>> THEN st ELSE BfsLoop(BfsIterate(st))

\* Mutant of UnvisitedCallback: the depths.has test is left out.
UnvisitedCallbackAlways(d, state) == DepthsSet(d, state, UnvisitedDepth(d))

\* the callback of stateNames.forEach in the unvisited pass
UnvisitedCallback(d, state) ==
    IF ~DepthsHas(d, state) THEN DepthsSet(d, state, UnvisitedDepth(d)) ELSE d

\* stateNames.forEach(...) of the unvisited pass, from index `from` on
RECURSIVE UnvisitedPass(_, _, _)
UnvisitedPass(d, stateNames, from) ==
    IF from > Len(stateNames) THEN d
    ELSE UnvisitedPass(UnvisitedCallback(d, stateNames[from]), stateNames, from + 1)

\* the depths map as the useMemo callback leaves it for the definition def
LayoutDepths(def) ==
    UnvisitedPass(BfsLoop(BfsStart(def, BuildEdgeList(def))).depths, stateNamesOf(def), 1)

\* ---------------------------------------------------------------- position
\* if (!depthGroups.has(depth)) depthGroups.set(depth, []); depthGroups.get(depth).push(state)
\* depthGroups is the sequence of its entries {depth, states} in insertion order
DepthGroupsPush(groups, depth, state) ==
    IF \E g \in 1..Len(groups) : groups[g].depth = depth
    THEN [g \in 1..Len(groups) |->
            IF groups[g].depth = depth
            THEN [depth |-> depth, states |-> Append(groups[g].states, state)]
            ELSE groups[g]]
    ELSE Append(groups, [depth |-> depth, states |-> <<state>>])

\* depths.forEach((depth, state) => ...), from entry i on
RECURSIVE GroupByDepth(_, _, _)
GroupByDepth(d, i, groups) ==
    IF i > Len(d) THEN groups
    ELSE GroupByDepth(d, i + 1, DepthGroupsPush(groups, d[i].depth, d[i].state))

\* depthGroups
depthGroupsOf(d) == GroupByDepth(d, 1, <<>>)

\* totalHeight = statesAtDepth.length * (nodeHeight + verticalGap) - verticalGap
totalHeight(count) == count * (nodeHeight + verticalGap) - verticalGap

\* Mutant of NodePositionOf: the column is not centred.
NodePositionUncentered(state, depth, idx, count) ==
    [ state |-> state,
      x |-> 80 + depth * horizontalGap,
      y |-> 60 + idx * (nodeHeight + verticalGap) ]

\* Mutant of NodePositionOf: the members of a column are not spread by idx.
NodePositionStacked(state, depth, idx, count) ==
    [ state |-> state,
      x |-> 80 + depth * horizontalGap,
      y |-> 60 + (300 - totalHeight(count)) \div 2 ]

\* one NodePosition; 300 - totalHeight is always even
NodePositionOf(state, depth, idx, count) ==
    [ state |-> state,
      x |-> 80 + depth * horizontalGap,
      y |-> 60 + idx * (nodeHeight + verticalGap) + (300 - totalHeight(count)) \div 2 ]

\* statesAtDepth.forEach((state, idx) => nodePositions.push(...)); idx is 0-based in the code
ColumnPositions(statesAtDepth, depth) ==
    [j \in 1..Len(statesAtDepth) |->
        NodePositionOf(statesAtDepth[j], depth, j - 1, Len(statesAtDepth))]

\* depthGroups.forEach((statesAtDepth, depth) => ...)
PositionsOfGroups(groups) ==
    Concat([g \in 1..Len(groups) |-> ColumnPositions(groups[g].states, groups[g].depth)])

\* nodePositions
NodePositions(d) == PositionsOfGroups(depthGroupsOf(d))

\* maxDepth = Math.max(...Array.from(depthGroups.keys()))
maxDepthOf(groups) == MathMax({groups[g].depth : g \in 1..Len(groups)})

\* Mutant of svgWidth: no minimum.
svgWidthUnfloored(d) == 160 + (maxDepthOf(depthGroupsOf(d)) + 1) * horizontalGap

\* svgWidth
svgWidth(d) == MathMax({400, 160 + (maxDepthOf(depthGroupsOf(d)) + 1) * horizontalGap})

\* Math.max(...Array.from(depthGroups.values()).map(g => g.length))
maxGroupLength(groups) == MathMax({Len(groups[g].states) : g \in 1..Len(groups)})

\* svgHeight
svgHeight(d) ==
    MathMax({300, maxGroupLength(depthGroupsOf(d)) * (nodeHeight + verticalGap) + 100})

\* -------------------------------------------------------------- edge router
\* const offset = (edgeIndex - (totalEdges - 1) / 2) * 15, doubled
offset2(edgeIndex, totalEdges) == (2 * edgeIndex - (totalEdges - 1)) * 15

\* Mutant of IsSelfLoop: an assignment for the comparison, true for every name.
IsSelfLoopAssigned(from, to) == TRUE

\* if (from.state === to.state)
IsSelfLoop(from, to) == from.state = to.state

\* Mutant of getEdgePath: every edge is the straight line between its anchors.
getEdgePathStraight(from, to, edgeIndex, totalEdges) ==
    [ cmd |-> "Q",
      pts |-> << 2 * (from.x + 60), 2 * (from.y + 25),
                 (2 * (from.x + 60) + 2 * to.x) \div 2, (2 * (from.y + 25) + 2 * (to.y + 25)) \div 2,
                 2 * to.x, 2 * (to.y + 25) >> ]

\* getEdgePath: the SVG path as its command letter and its numbers, doubled.
\* |toX - fromX| is a multiple of 60 for every pair of node positions, so
\* the product with 0.3 is taken exactly.
getEdgePath(from, to, edgeIndex, totalEdges) ==
    LET fromX2 == 2 * (from.x + 60)
        fromY2 == 2 * (from.y + 25)
        toX2   == 2 * to.x
        toY2   == 2 * (to.y + 25)
        off2   == offset2(edgeIndex, totalEdges)
        midX2  == (fromX2 + toX2) \div 2
        midY2  == (fromY2 + toY2) \div 2 + off2
        controlOffset2 == (Abs(toX2 - fromX2) * 3) \div 10
    IN  IF IsSelfLoop(from, to)
        THEN [ cmd |-> "C",
               pts |-> << 2 * (from.x + 60),  2 * from.y,
                          2 * (from.x + 100), 2 * (from.y - 40),
                          2 * (from.x + 100), 2 * (from.y + 90),
                          2 * (from.x + 60),  2 * (from.y + 50) >> ]
        ELSE [ cmd |-> "Q",
               pts |-> << fromX2, fromY2,
                          midX2, midY2 + (IF off2 > 0 THEN controlOffset2 ELSE -controlOffset2),
                          toX2, toY2 >> ]

\* nodes.find(n => n.state === name): 0 stands for undefined
FindNode(ns, name) ==
    IF \E i \in 1..Len(ns) : ns[i].state = name
    THEN CHOOSE i \in 1..Len(ns) : ns[i].state = name /\ \A j \in 1..(i - 1) : ns[j].state # name
    ELSE 0

\* Mutant of SamePair: only edges of the same direction are grouped.
SamePairDirected(e, edge) == e.from = edge.from /\ e.to = edge.to

\* the filter predicate of sameEdges
SamePair(e, edge) ==
    (e.from = edge.from /\ e.to = edge.to) \/ (e.from = edge.to /\ e.to = edge.from)

\* sameEdges, as the indices into edges (an edge is known by its reference)
sameEdges(edges, k) ==
    SelectSeq([i \in 1..Len(edges) |-> i], LAMBDA i : SamePair(edges[i], edges[k]))

\* sameEdges.indexOf(edge), 0-based
IndexOf(seq, x) == (CHOOSE i \in 1..Len(seq) : seq[i] = x) - 1

\* the <g> drawn for edge k, whose path is d={getEdgePath(fromNode, toNode, edgeIndex, sameEdges.length)}
RoutedEdge(edge, k, fromNode, toNode, same) ==
    [ edge  |-> k,
      from  |-> edge.from,
      to    |-> edge.to,
      label |-> edge.label,
      d     |-> getEdgePath(fromNode, toNode, IndexOf(same, k), Len(same)) ]

\* the element edges.map returns for edge k (only called when both nodes were found)
RouteEdge(ns, edges, k) ==
    RoutedEdge(edges[k], k, ns[FindNode(ns, edges[k].from)], ns[FindNode(ns, edges[k].to)],
               sameEdges(edges, k))

\* the elements for the edges at the indices `found`
RouteFound(ns, edges, found) == [j \in 1..Len(found) |-> RouteEdge(ns, edges, found[j])]

\* edges.map(...): null results (a node not found) draw nothing
RouteEdges(ns, edges) ==
    RouteFound(ns, edges,
               SelectSeq([i \in 1..Len(edges) |-> i],
                         LAMBDA i : FindNode(ns, edges[i].from) # 0 /\ FindNode(ns, edges[i].to) # 0))

\* nodes.map(...): node.state.length is read for every node, which raises a
\* TypeError when node.state is undefined
RenderThrows(ns) == \E i \in 1..Len(ns) : ns[i].state = Undefined

\* Mutant of isHovered: the two hoveredState tests are left out.
isHoveredEdgeOnly(edge, edgeRef, hs, he) == he = edgeRef

\* const isHovered = hoveredEdge === edge || hoveredState === edge.from || hoveredState === edge.to
\* edgeRef is the identity of the edge object: <<definition object, index>>
isHovered(edge, edgeRef, hs, he) == he = edgeRef \/ hs = edge.from \/ hs = edge.to

\* isHovered of every element edges.map returned: stroke var(--accent), width 2
\* and the <text> with edge.label are drawn exactly for these
Emphasis(drawn, edges, gen, hs, he) ==
    [j \in 1..Len(drawn) |-> isHovered(edges[drawn[j].edge], <<gen, drawn[j].edge>>, hs, he)]

\* ------------------------------------------------------------ DataProvider
\* DataProvider before its first call: useState(false), useState(true),
\* useRef(null) (0 stands for null, timer ids are positive), dataRef with
\* isStale false; no timer runs and no fetch is in flight.
ProviderBeforeMount ==
    [ mounted |-> "no",
      isLoading |-> FALSE,
      autoUpdate |-> TRUE,
      intervalRef |-> 0,
      isStale |-> FALSE,
      intervals |-> {},
      staleCheck |-> FALSE,
      nextTimer |-> 1,
      refreshing |-> 0,
      polling |-> 0,
      toggles |-> 0 ]

\* refresh(), up to its await: setIsLoading(true), then fetchAllData() is in flight
RefreshCalled(dp) == [dp EXCEPT !.isLoading = TRUE, !.refreshing = @ + 1]

\* refresh(), from its await on: fetchAllData resolved (dataRef.current =
\* newData, isStale false) or rejected, then finally { setIsLoading(false) }.
\* A set-state call on an unmounted component changes nothing.
RefreshSettled(dp, ok) ==
    [dp EXCEPT !.refreshing = @ - 1,
               !.isStale = IF ok THEN FALSE ELSE @,
               !.isLoading = IF dp.mounted = "yes" THEN FALSE ELSE @]

\* The polling effect: refresh(); if (autoUpdate) intervalRef.current =
\* window.setInterval(...). setInterval returns a new positive id.
PollingEffect(dp) ==
    LET called == RefreshCalled(dp)
    IN  IF called.autoUpdate
        THEN [called EXCEPT !.intervalRef = called.nextTimer,
                            !.intervals = @ \cup {called.nextTimer},
                            !.nextTimer = @ + 1]
        ELSE called

\* Mutant of PollingCleanup: the effect returns no cleanup.
PollingCleanupSkipped(dp) == dp

\* The cleanup of the polling effect:
\* if (intervalRef.current) clearInterval(intervalRef.current)
PollingCleanup(dp) ==
    IF dp.intervalRef # 0 THEN [dp EXCEPT !.intervals = @ \ {dp.intervalRef}] ELSE dp

\* ------------------------------------------------------------------ actions
\* The component is about to be called for the first time: nothing is laid
\* out, both useState cells hold null.
Mounting ==
    /\ pc = "mount"
    /\ edgeList = <<>>
    /\ queue = <<>>
    /\ visited = {}
    /\ depths = <<>>
    /\ cursor = 0
    /\ nodes = <<>>
    /\ width = 0
    /\ height = 0
    /\ routed = <<>>
    /\ threw = FALSE
    /\ defRef = 0
    /\ memoDep = -1
    /\ layoutRan = FALSE
    /\ hoveredState = Null
    /\ hoveredEdge = NullEdge
    /\ highlit = <<>>
    /\ event = [type |-> "none", node |-> Null]
    /\ emitted = <<>>
    /\ enqueued = 0
    /\ depthWrites = 0
    /\ pointer = NoPointer
    /\ dataProvider = ProviderBeforeMount

Init ==
    /\ IsDefinition(definition)
    /\ onStateClick = FALSE
    /\ Mounting

InitWide ==
    /\ IsWideDefinition(definition)
    /\ onStateClick = FALSE
    /\ Mounting

\* The useMemo callback on the definition def: edge list, BFS, unvisited
\* pass, positions, extent. Each intermediate value is bound by \E over a
\* singleton, which evaluates it once.
UseMemoCallback(def) ==
    \E edges \in {BuildEdgeList(def)} :
    \E bfs \in {BfsLoop(BfsStart(def, edges))} :
    \E final \in {UnvisitedPass(bfs.depths, stateNamesOf(def), 1)} :
        /\ edgeList' = edges
        /\ queue' = bfs.queue
        /\ visited' = bfs.visited
        /\ depths' = final
        /\ cursor' = Len(stateNamesOf(def)) + 1
        /\ nodes' = NodePositions(final)
        /\ width' = svgWidth(final)
        /\ height' = svgHeight(final)

\* The JSX over the layout useMemo returned: edges.map, then nodes.map. gen is
\* the definition object the edge objects were built from.
Jsx(gen, hs, he) ==
    /\ routed' = RouteEdges(nodes', edgeList')
    /\ highlit' = Emphasis(routed', edgeList', gen, hs, he)
    /\ threw' = RenderThrows(nodes')

\* The first call of FiberStateViewer: the useMemo callback, then the JSX.
RenderComponent ==
    /\ pc = "mount"
    /\ UseMemoCallback(definition)
    /\ Jsx(defRef, hoveredState, hoveredEdge)
    /\ pc' = "done"
    /\ memoDep' = defRef
    /\ layoutRan' = TRUE
    /\ event' = [type |-> "mount", node |-> Null]
    /\ emitted' = <<>>
    /\ UNCHANGED <<definition, defRef, hoveredState, hoveredEdge, onStateClick, pointer, dataProvider, countVars>>

Next == RenderComponent

Spec == Init /\ [][Next]_vars

\* the same single render over the definitions with tall columns
SpecWide == InitWide /\ [][Next]_vars

\* ------------------------------------------- the same call, step by step
\* useMemo callback up to the while loop: edge list, empty depths/visited, initial queue
BuildGraph ==
    /\ pc = "mount"
    /\ LET st == BfsStart(definition, BuildEdgeList(definition))
       IN  /\ edgeList' = st.edges
           /\ depths' = st.depths
           /\ visited' = st.visited
           /\ queue' = st.queue
           /\ enqueued' = Len(st.queue)
    /\ pc' = "bfs"
    /\ UNCHANGED <<definition, cursor, nodes, width, height, routed, threw, uiVars, dataProvider, depthWrites>>

BfsState == [queue |-> queue, visited |-> visited, depths |-> depths, edges |-> edgeList]

\* one iteration of while (queue.length > 0) that hits `continue`
BfsSkip ==
    /\ pc = "bfs"
    /\ queue # <<>>
    /\ BfsContinues(visited, QueueShift(queue).item)
    /\ queue' = BfsIterate(BfsState).queue
    /\ UNCHANGED <<definition, pc, edgeList, visited, depths, cursor, nodes, width, height, routed, threw,
                   uiVars, dataProvider, countVars>>

\* one iteration of while (queue.length > 0) that visits the state: one
\* depths.set, and one queue.push per entry the queue has gained past the shift
BfsVisit ==
    /\ pc = "bfs"
    /\ queue # <<>>
    /\ ~BfsContinues(visited, QueueShift(queue).item)
    /\ queue' = BfsIterate(BfsState).queue
    /\ visited' = BfsIterate(BfsState).visited
    /\ depths' = BfsIterate(BfsState).depths
    /\ enqueued' = enqueued + Len(queue') - Len(QueueShift(queue).rest)
    /\ depthWrites' = depthWrites + 1
    /\ UNCHANGED <<definition, pc, edgeList, cursor, nodes, width, height, routed, threw, uiVars, dataProvider>>

\* the while loop ends
BfsExit ==
    /\ pc = "bfs"
    /\ queue = <<>>
    /\ pc' = "unvisited"
    /\ cursor' = 1
    /\ UNCHANGED <<definition, edgeList, queue, visited, depths, nodes, width, height, routed, threw,
                   uiVars, dataProvider, countVars>>

\* one callback of stateNames.forEach in the unvisited pass; it calls
\* depths.set when it leaves depths changed
UnvisitedStep ==
    /\ pc = "unvisited"
    /\ cursor <= Len(stateNamesOf(definition))
    /\ depths' = UnvisitedCallback(depths, stateNamesOf(definition)[cursor])
    /\ depthWrites' = depthWrites + (IF depths' # depths THEN 1 ELSE 0)
    /\ cursor' = cursor + 1
    /\ UNCHANGED <<definition, pc, edgeList, queue, visited, nodes, width, height, routed, threw,
                   uiVars, dataProvider, enqueued>>

\* depth groups, node positions and canvas extent; useMemo returns
Position ==
    /\ pc = "unvisited"
    /\ cursor > Len(stateNamesOf(definition))
    /\ nodes' = NodePositions(depths)
    /\ width' = svgWidth(depths)
    /\ height' = svgHeight(depths)
    /\ pc' = "render"
    /\ UNCHANGED <<definition, edgeList, queue, visited, depths, cursor, routed, threw, uiVars, dataProvider, countVars>>

\* the JSX of the component: edges.map, then nodes.map
Render ==
    /\ pc = "render"
    /\ routed' = RouteEdges(nodes, edgeList)
    /\ threw' = RenderThrows(nodes)
    /\ highlit' = Emphasis(routed', edgeList, defRef, hoveredState, hoveredEdge)
    /\ pc' = "done"
    /\ memoDep' = defRef
    /\ layoutRan' = TRUE
    /\ event' = [type |-> "mount", node |-> Null]
    /\ emitted' = <<>>
    /\ UNCHANGED <<definition, layoutVars, defRef, hoveredState, hoveredEdge, onStateClick, pointer, dataProvider, countVars>>

NextBfs ==
    \/ BuildGraph
    \/ BfsSkip
    \/ BfsVisit
    \/ BfsExit
    \/ UnvisitedStep
    \/ Position
    \/ Render

InitBfs ==
    /\ IsDefinitionWithin(definition, MaxStepStates, MaxStepActions)
    /\ onStateClick = FALSE
    /\ Mounting

SpecBfs == InitBfs /\ [][NextBfs]_vars

\* Run step by step, the call ends in the state RenderComponent produces.
StepwiseAgrees ==
    pc = "done" =>
        LET edges == BuildEdgeList(definition)
            bfs   == BfsLoop(BfsStart(definition, edges))
            final == UnvisitedPass(bfs.depths, stateNamesOf(definition), 1)
        IN  /\ edgeList = edges
            /\ queue = bfs.queue
            /\ visited = bfs.visited
            /\ depths = final
            /\ nodes = NodePositions(final)
            /\ width = svgWidth(final)
            /\ height = svgHeight(final)
            /\ routed = RouteEdges(NodePositions(final), edges)
            /\ threw = RenderThrows(NodePositions(final))

\* ------------------------------------------------ the mounted component
\* Mutant of MemoHit: the dependency array is missing, every render recomputes.
MemoNeverHits(dep, ref) == FALSE

\* useMemo(..., [definition]): the stored layout is kept when the definition
\* prop is the object it was computed from
MemoHit(dep, ref) == dep = ref

\* A later call of the component function with the definition object ref and
\* the useState cells hs, he: useMemo, then the JSX.
ComponentCall(ref, def, hs, he) ==
    /\ IF MemoHit(memoDep, ref)
       THEN /\ UNCHANGED layoutVars
            /\ layoutRan' = FALSE
       ELSE /\ UseMemoCallback(def)
            /\ layoutRan' = TRUE
    /\ memoDep' = ref
    /\ Jsx(ref, hs, he)

\* What a handler leaves behind: the two useState cells and the onStateClick
\* calls it made.
\* onMouseEnter={() => setHoveredState(node.state)}
NodeOnMouseEnter(node, hs, he) == [hoveredState |-> node.state, hoveredEdge |-> he, calls |-> <<>>]

\* onMouseLeave={() => setHoveredState(null)}
NodeOnMouseLeave(node, hs, he) == [hoveredState |-> Null, hoveredEdge |-> he, calls |-> <<>>]

\* onMouseEnter={() => setHoveredEdge(edge)}
EdgeOnMouseEnter(edgeRef, hs, he) == [hoveredState |-> hs, hoveredEdge |-> edgeRef, calls |-> <<>>]

\* onMouseLeave={() => setHoveredEdge(null)}
EdgeOnMouseLeave(edgeRef, hs, he) == [hoveredState |-> hs, hoveredEdge |-> NullEdge, calls |-> <<>>]

\* Mutant of NodeOnClick: the click also selects the node as hovered.
NodeOnClickSelecting(node, hs, he, given) ==
    [hoveredState |-> node.state, hoveredEdge |-> he, calls |-> IF given THEN <<node.state>> ELSE <<>>]

\* onClick={() => onStateClick?.(node.state)}
NodeOnClick(node, hs, he, given) ==
    [hoveredState |-> hs, hoveredEdge |-> he, calls |-> IF given THEN <<node.state>> ELSE <<>>]

\* the <g> elements are on screen and take events
Mounted == pc = "done" /\ ~threw

\* A set-state handler has run and left `after`; React calls the component again.
Handled(after, type, name) ==
    /\ hoveredState' = after.hoveredState
    /\ hoveredEdge' = after.hoveredEdge
    /\ emitted' = after.calls
    /\ event' = [type |-> type, node |-> name]
    /\ ComponentCall(defRef, definition, after.hoveredState, after.hoveredEdge)
    /\ UNCHANGED <<definition, pc, defRef, onStateClick, pointer, dataProvider, countVars>>

NodeMouseEnter ==
    /\ Mounted
    /\ \E i \in 1..Len(nodes) :
          Handled(NodeOnMouseEnter(nodes[i], hoveredState, hoveredEdge), "nodeEnter", nodes[i].state)

NodeMouseLeave ==
    /\ Mounted
    /\ \E i \in 1..Len(nodes) :
          Handled(NodeOnMouseLeave(nodes[i], hoveredState, hoveredEdge), "nodeLeave", nodes[i].state)

EdgeMouseEnter ==
    /\ Mounted
    /\ \E j \in 1..Len(routed) :
          Handled(EdgeOnMouseEnter(<<memoDep, routed[j].edge>>, hoveredState, hoveredEdge), "edgeEnter", Null)

EdgeMouseLeave ==
    /\ Mounted
    /\ \E j \in 1..Len(routed) :
          Handled(EdgeOnMouseLeave(<<memoDep, routed[j].edge>>, hoveredState, hoveredEdge), "edgeLeave", Null)

\* The click handler sets no state, so the component is not called again.
NodeClick ==
    /\ Mounted
    /\ \E i \in 1..Len(nodes) :
       \E after \in {NodeOnClick(nodes[i], hoveredState, hoveredEdge, onStateClick)} :
          /\ hoveredState' = after.hoveredState
          /\ hoveredEdge' = after.hoveredEdge
          /\ emitted' = after.calls
          /\ event' = [type |-> "click", node |-> nodes[i].state]
          /\ IF after.hoveredState = hoveredState /\ after.hoveredEdge = hoveredEdge
             THEN /\ layoutRan' = FALSE
                  /\ UNCHANGED <<layoutVars, memoDep, routed, highlit, threw>>
             ELSE ComponentCall(defRef, definition, after.hoveredState, after.hoveredEdge)
    /\ UNCHANGED <<definition, pc, defRef, onStateClick, pointer, dataProvider, countVars>>

\* The host renders again and passes the same definition object.
HostRerenders ==
    /\ Mounted
    /\ event' = [type |-> "rerender", node |-> Null]
    /\ emitted' = <<>>
    /\ ComponentCall(defRef, definition, hoveredState, hoveredEdge)
    /\ UNCHANGED <<definition, pc, defRef, hoveredState, hoveredEdge, onStateClick, pointer, dataProvider, countVars>>

\* The host renders again and passes a new object with the same content
\* (MarketsView and OraclesView parse detail.definition on every render).
HostSuppliesDefinition ==
    /\ Mounted
    /\ defRef < MaxHostUpdates
    /\ defRef' = defRef + 1
    /\ definition' = definition
    /\ event' = [type |-> "definition", node |-> Null]
    /\ emitted' = <<>>
    /\ ComponentCall(defRef', definition', hoveredState, hoveredEdge)
    /\ UNCHANGED <<pc, hoveredState, hoveredEdge, onStateClick, pointer, dataProvider, countVars>>

NextUi ==
    \/ RenderComponent
    \/ NodeMouseEnter
    \/ NodeMouseLeave
    \/ EdgeMouseEnter
    \/ EdgeMouseLeave
    \/ NodeClick
    \/ HostRerenders
    \/ HostSuppliesDefinition

InitUi ==
    /\ IsUiDefinition(definition)
    /\ onStateClick \in BOOLEAN
    /\ Mounting

SpecUi == InitUi /\ [][NextUi]_vars

\* The host alone: it mounts the component and renders again, with the same
\* definition object or with a new one, and no pointer event arrives.
NextHost ==
    \/ RenderComponent
    \/ HostRerenders
    \/ HostSuppliesDefinition

InitHost ==
    /\ IsDefinitionWithin(definition, MaxStepStates, MaxStepActions)
    /\ onStateClick = FALSE
    /\ Mounting

SpecHost == InitHost /\ [][NextHost]_vars

\* ------------------------------------------------ the pointer of the browser
\* The <g> elements on screen: one per node and one per drawn edge.
Elements(ns, drawn) ==
    {InNode(ns[i].state) : i \in 1..Len(ns)} \cup {InEdge(drawn[j].edge) : j \in 1..Len(drawn)}

\* No handler runs: the two useState cells stay as they are.
NoHandler(hs, he) == [hoveredState |-> hs, hoveredEdge |-> he, calls |-> <<>>]

\* onMouseLeave of the element the pointer goes out of
LeaveHandler(p, hs, he) ==
    IF p.kind = "node" THEN NodeOnMouseLeave(nodes[FindNode(nodes, p.name)], hs, he)
    ELSE IF p.kind = "edge" THEN EdgeOnMouseLeave(<<memoDep, p.idx>>, hs, he)
    ELSE NoHandler(hs, he)

\* onMouseEnter of the element the pointer comes into
EnterHandler(p, hs, he) ==
    IF p.kind = "node" THEN NodeOnMouseEnter(nodes[FindNode(nodes, p.name)], hs, he)
    ELSE IF p.kind = "edge" THEN EdgeOnMouseEnter(<<memoDep, p.idx>>, hs, he)
    ELSE NoHandler(hs, he)

\* The pointer moves from where it is to another element or off every
\* element: the browser reports one mouseout, React calls onMouseLeave of the
\* element left and onMouseEnter of the element entered, then renders.
PointerMoves ==
    /\ Mounted
    /\ \E to \in (Elements(nodes, routed) \cup {NoPointer}) \ {pointer} :
       \E left \in {LeaveHandler(pointer, hoveredState, hoveredEdge)} :
       \E after \in {EnterHandler(to, left.hoveredState, left.hoveredEdge)} :
          /\ pointer' = to
          /\ hoveredState' = after.hoveredState
          /\ hoveredEdge' = after.hoveredEdge
          /\ emitted' = after.calls
          /\ event' = [type |-> "pointer", node |-> to.name]
          /\ ComponentCall(defRef, definition, after.hoveredState, after.hoveredEdge)
    /\ UNCHANGED <<definition, pc, defRef, onStateClick, dataProvider, countVars>>

\* The host renders again with the definition of another state machine. React
\* keeps the <g> elements whose keys are still rendered and removes the
\* others; an element removed under the pointer gets no mouseleave, so no
\* handler runs and the pointer is in no element until it moves.
HostSuppliesOtherDefinition ==
    /\ Mounted
    /\ defRef < MaxHostUpdates
    /\ defRef' = defRef + 1
    /\ IsUiDefinition(definition')
    /\ definition' # definition
    /\ event' = [type |-> "definition", node |-> Null]
    /\ emitted' = <<>>
    /\ ComponentCall(defRef', definition', hoveredState, hoveredEdge)
    /\ pointer' = IF pointer \in Elements(nodes', routed') THEN pointer ELSE NoPointer
    /\ UNCHANGED <<pc, hoveredState, hoveredEdge, onStateClick, dataProvider, countVars>>

NextPointer ==
    \/ RenderComponent
    \/ PointerMoves
    \/ HostSuppliesDefinition
    \/ HostSuppliesOtherDefinition

InitPointer ==
    /\ IsUiDefinition(definition)
    /\ onStateClick = FALSE
    /\ Mounting

SpecPointer == InitPointer /\ [][NextPointer]_vars

\* -------------------------------------------------- DataProvider, mounted
\* The first render of DataProvider and its two effects.
ProviderMount ==
    /\ dataProvider.mounted = "no"
    /\ dataProvider' = PollingEffect([dataProvider EXCEPT !.mounted = "yes", !.staleCheck = TRUE])
    /\ UNCHANGED viewerVars

\* setAutoUpdate(e.target.checked) with a new value: DataProvider renders
\* again, the cleanup of the polling effect runs, then the effect.
SetAutoUpdate ==
    /\ dataProvider.mounted = "yes"
    /\ dataProvider.toggles < MaxToggles
    /\ dataProvider.refreshing < MaxRefreshes
    /\ \E enabled \in BOOLEAN \ {dataProvider.autoUpdate} :
          dataProvider' =
              PollingEffect(PollingCleanup([dataProvider EXCEPT !.autoUpdate = enabled,
                                                                !.toggles = @ + 1]))
    /\ UNCHANGED viewerVars

\* refresh() from the Refresh button or the r key
ManualRefresh ==
    /\ dataProvider.mounted = "yes"
    /\ dataProvider.refreshing < MaxRefreshes
    /\ dataProvider' = RefreshCalled(dataProvider)
    /\ UNCHANGED viewerVars

\* the fetch one refresh() call awaits resolves or rejects
RefreshSettles ==
    /\ dataProvider.refreshing > 0
    /\ \E ok \in BOOLEAN : dataProvider' = RefreshSettled(dataProvider, ok)
    /\ UNCHANGED viewerVars

\* an active polling interval fires: fetchAllData().catch(...)
IntervalFires ==
    /\ dataProvider.intervals # {}
    /\ dataProvider.polling < MaxRefreshes
    /\ dataProvider' = [dataProvider EXCEPT !.polling = @ + 1]
    /\ UNCHANGED viewerVars

\* the fetch of a poll resolves (isStale false) or rejects (isStale true)
PollSettles ==
    /\ dataProvider.polling > 0
    /\ \E ok \in BOOLEAN :
          dataProvider' = [dataProvider EXCEPT !.polling = @ - 1, !.isStale = ~ok]
    /\ UNCHANGED viewerVars

\* the staleCheck interval fires more than STALE_THRESHOLD after the last update
StaleCheckFires ==
    /\ dataProvider.staleCheck
    /\ ~dataProvider.isStale
    /\ dataProvider' = [dataProvider EXCEPT !.isStale = TRUE]
    /\ UNCHANGED viewerVars

\* DataProvider is unmounted: the cleanups of both effects run.
ProviderUnmount ==
    /\ dataProvider.mounted = "yes"
    /\ dataProvider' = PollingCleanup([dataProvider EXCEPT !.mounted = "gone", !.staleCheck = FALSE])
    /\ UNCHANGED viewerVars

NextProvider ==
    \/ ProviderMount
    \/ SetAutoUpdate
    \/ ManualRefresh
    \/ RefreshSettles
    \/ IntervalFires
    \/ PollSettles
    \/ StaleCheckFires
    \/ ProviderUnmount

\* DataProvider about to be mounted; no FiberStateViewer is on screen.
InitProvider ==
    /\ definition = MakeDefinition(1, <<>>, Keys(1)[1], FALSE)
    /\ onStateClick = FALSE
    /\ Mounting

SpecProvider == InitProvider /\ [][NextProvider]_vars

\* ========================================================== the properties
\* What the definition says, read off the definition itself.
Done == pc = "done"

Declared == {definition.states[k].name : k \in 1..Len(definition.states)}

\* the largest number of actions a state of the definition has
MaxActionsOfAState ==
    MathMax({0} \cup {Len(definition.states[k].actions) : k \in 1..Len(definition.states)})

\* <<k, j>>: the j-th action of the k-th state names a declared target
ValidActions ==
    { kj \in (1..Len(definition.states)) \X (1..MaxActionsOfAState) :
        /\ definition.states[kj[1]].hasActions
        /\ kj[2] <= Len(definition.states[kj[1]].actions)
        /\ definition.states[kj[1]].actions[kj[2]].target \in Declared }

\* <<k, j>>: the j-th action of the k-th state names an undeclared target
DroppedActions ==
    { kj \in (1..Len(definition.states)) \X (1..MaxActionsOfAState) :
        /\ definition.states[kj[1]].hasActions
        /\ kj[2] <= Len(definition.states[kj[1]].actions)
        /\ definition.states[kj[1]].actions[kj[2]].target \notin Declared }

SourceOf(kj) == definition.states[kj[1]].name
TargetOf(kj) == definition.states[kj[1]].actions[kj[2]].target
EventOf(kj) == definition.states[kj[1]].actions[kj[2]].eventName

Successors(S) == {TargetOf(kj) : kj \in {v \in ValidActions : SourceOf(v) \in S}}

\* Breadth-first levels from initialState: the pairs <<state, h>> where h is
\* the least number of edge-hops from initialState to state. `frontier` holds
\* the states first met after h hops, `found` the pairs of the nearer ones.
RECURSIVE DistancesFrom(_, _, _)
DistancesFrom(h, frontier, found) ==
    IF frontier = {} THEN found
    ELSE DistancesFrom(h + 1,
                       Successors(frontier) \ (frontier \cup {p[1] : p \in found}),
                       found \cup {<<s, h>> : s \in frontier})

\* shortest-path distances from initialState, in edge-hops
Distances == DistancesFrom(0, {definition.initialState}, {})

Reachable == {p[1] : p \in Distances}

NodeStates == {nodes[i].state : i \in 1..Len(nodes)}

\* C1: the layout has exactly one node per key of states and no other node,
\* so the number of nodes is |states|, whether or not initialState is declared.
C1_NodePerState ==
    Done => /\ Len(nodes) = Cardinality(Declared)
            /\ NodeStates = Declared

\* every pair <<state, distance>> has that distance as depth and as column
DepthsAreDistances(dist) ==
    \A p \in dist :
        /\ DepthsHas(depths, p[1])
        /\ DepthsGet(depths, p[1]) = p[2]
        /\ \E i \in 1..Len(nodes) :
              nodes[i].state = p[1] /\ nodes[i].x = 80 + p[2] * horizontalGap

\* C2: with a declared initialState, depth(initialState) = 0 and every state
\* reachable over valid edges has its shortest-path distance as depth, on
\* acyclic and cyclic graphs.
C2_ShortestPathDepth ==
    (Done /\ definition.initialState \in Declared) =>
        /\ DepthsHas(depths, definition.initialState)
        /\ DepthsGet(depths, definition.initialState) = 0
        /\ DepthsAreDistances(Distances)

\* a cyclic graph with a state two hops away and an edge back to initialState
C2_Witness ==
    /\ Done
    /\ definition.initialState \in Declared
    /\ \E p \in Distances : p[2] = 2
    /\ \E v \in ValidActions :
          SourceOf(v) \in Reachable /\ SourceOf(v) # definition.initialState
          /\ TargetOf(v) = definition.initialState

\* every declared state outside dist has depth 1 + the largest distance
UnreachableAtOnePastMax(dist) ==
    \A s \in Declared \ {p[1] : p \in dist} :
        /\ DepthsHas(depths, s)
        /\ DepthsGet(depths, s) = 1 + MathMax({p[2] : p \in dist})

\* C3: with a declared initialState, all unreachable states get one and the
\* same depth, 1 + the maximum depth of the reachable states.
C3_UnreachableShareDepth ==
    (Done /\ definition.initialState \in Declared) => UnreachableAtOnePastMax(Distances)

\* C4: with an undeclared initialState the layout completes and every
\* declared state is in one common depth bucket: each gets depth 0.
C4_MissingInitialOneBucket ==
    (Done /\ definition.initialState \notin Declared) =>
        \A s \in Declared : DepthsHas(depths, s) /\ DepthsGet(depths, s) = 0

\* C5: the routed edges are exactly the actions with a declared target, one
\* edge each; an action with an undeclared target yields no edge, its source
\* state is still a node, every routed edge joins two laid-out nodes, and no
\* target makes rendering fail (a TypeError arises only from an absent
\* initialState).
C5_EdgePreservation ==
    Done =>
        /\ Len(routed) = Cardinality(ValidActions)
        /\ \A v \in ValidActions :
              \E i \in 1..Len(routed) :
                 /\ routed[i].from = SourceOf(v)
                 /\ routed[i].to = TargetOf(v)
                 /\ routed[i].label = EventOf(v)
        /\ \A i \in 1..Len(routed) :
              /\ routed[i].from \in NodeStates
              /\ routed[i].to \in NodeStates
              /\ routed[i].to \in Declared
        /\ \A v \in DroppedActions : SourceOf(v) \in NodeStates
        /\ threw => definition.initialState = Undefined

\* a rendered diagram with a dropped action next to a routed edge
C5_Witness ==
    /\ Done
    /\ ~threw
    /\ DroppedActions # {}
    /\ Len(routed) >= 1
    /\ \E v \in DroppedActions, w \in ValidActions : SourceOf(v) = SourceOf(w)

\* C6: layout and rendering never throw on partial input (initialState
\* absent, states empty, or states without an actions field).
C6_NeverThrows ==
    (Done /\ \/ definition.initialState = Undefined
             \/ Len(definition.states) = 0
             \/ \E k \in 1..Len(definition.states) : ~definition.states[k].hasActions)
    => ~threw

\* C7: an empty states mapping gives an empty canvas: no nodes, no edges and
\* no error, whatever initialState is.
C7_EmptyCanvas ==
    (Done /\ Len(definition.states) = 0) =>
        /\ Len(nodes) = 0
        /\ Len(routed) = 0
        /\ ~threw

\* C8: edges are never deduplicated and stay distinguishable: every valid
\* action has its own edge and two distinct edges with the same (from, to)
\* have different path geometry.
C8_ParallelDistinct ==
    Done =>
        /\ Len(routed) = Cardinality(ValidActions)
        /\ \A i, j \in 1..Len(routed) :
              (i # j /\ routed[i].from = routed[j].from /\ routed[i].to = routed[j].to)
              => routed[i].d # routed[j].d

\* The lateral offset (doubled) that a routed curve shows: the distance of its
\* control point from the midpoint of the anchors, less the bow of the curve.
LateralOffset2(d) ==
    LET bow2 == (Abs(d.pts[5] - d.pts[1]) * 3) \div 10
        m2   == d.pts[4] - (d.pts[2] + d.pts[6]) \div 2
    IN  IF m2 > 0 THEN m2 - bow2 ELSE m2 + bow2

\* the routed edges of the unordered endpoint pair of routed[i], in edge-list order
GroupOf(i) ==
    { j \in 1..Len(routed) :
        \/ (routed[j].from = routed[i].from /\ routed[j].to = routed[i].to)
        \/ (routed[j].from = routed[i].to /\ routed[j].to = routed[i].from) }

PositionIn(i) == Cardinality({j \in GroupOf(i) : j < i})

C10_SelfLoopDistinct ==
    Done =>
        \A i, j \in 1..Len(routed) :
            (routed[i].from = routed[i].to /\ routed[j].from # routed[j].to)
            => routed[i].d # routed[j].d

\* a self-loop and a non-loop edge leaving the same node
C10_Witness ==
    /\ Done
    /\ \E i, j \in 1..Len(routed) :
          /\ routed[i].from = routed[i].to
          /\ routed[j].from = routed[i].from
          /\ routed[j].from # routed[j].to

\* the d attributes of the drawn edges, with the edge each belongs to
PathsOf(drawn) == [j \in 1..Len(drawn) |-> <<drawn[j].from, drawn[j].to, drawn[j].label, drawn[j].d>>]

PointerEvents == {"nodeEnter", "nodeLeave", "edgeEnter", "edgeLeave", "click"}

\* C12: a pointer-enter, pointer-leave or click leaves nodes, edges, width and
\* height as they are and does not run the layout; the layout runs only in
\* the first call and in a call with a different definition object.
C12_HoverKeepsLayout ==
    [][/\ event'.type \in PointerEvents =>
            /\ ~layoutRan'
            /\ nodes' = nodes
            /\ edgeList' = edgeList
            /\ depths' = depths
            /\ width' = width
            /\ height' = height
       /\ layoutRan' => (pc = "mount" \/ defRef' # defRef)]_vars

\* a hover handled on the second definition object, over a kept layout
C12_Witness ==
    /\ Mounted
    /\ event.type = "nodeEnter"
    /\ hoveredState = event.node
    /\ hoveredEdge # NullEdge
    /\ ~layoutRan
    /\ memoDep = 1
    /\ Len(nodes) >= 2

\* C13: a click on a node calls onStateClick (when the prop is given) exactly
\* once, with the name of the clicked node, and leaves hoveredState and
\* hoveredEdge as they are; no other event calls it.
C13_ClickCallsOnce ==
    [][/\ event'.type = "click" =>
            /\ emitted' = (IF onStateClick THEN <<event'.node>> ELSE <<>>)
            /\ hoveredState' = hoveredState
            /\ hoveredEdge' = hoveredEdge
       /\ event'.type # "click" => emitted' = <<>>]_vars

\* a click on one node while another node and an edge are recorded as hovered
C13_Witness ==
    /\ Mounted
    /\ onStateClick
    /\ event.type = "click"
    /\ emitted = <<event.node>>
    /\ hoveredState # Null
    /\ hoveredState # event.node
    /\ hoveredEdge # NullEdge

\* C14: whatever hoveredState and hoveredEdge hold, a drawn edge is emphasized
\* (accent stroke, label shown) exactly when it is the object hoveredEdge holds
\* or hoveredState is its from or its to; with both null nothing is emphasized.
C14_Emphasis ==
    Mounted =>
        /\ Len(highlit) = Len(routed)
        /\ \A j \in 1..Len(routed) :
              highlit[j] <=> \/ hoveredEdge = <<memoDep, routed[j].edge>>
                             \/ hoveredState = routed[j].from
                             \/ hoveredState = routed[j].to
        /\ (hoveredState = Null /\ hoveredEdge = NullEdge) =>
              \A j \in 1..Len(routed) : ~highlit[j]

\* a hovered node with an edge arriving and another edge leaving, both emphasized
C14_Witness ==
    /\ Mounted
    /\ hoveredState # Null
    /\ hoveredEdge = NullEdge
    /\ \E j, l \in 1..Len(routed) :
          /\ j # l
          /\ highlit[j] /\ highlit[l]
          /\ routed[j].to = hoveredState /\ routed[j].from # hoveredState
          /\ routed[l].from = hoveredState

\* the depth assignment (BFS loop and unvisited pass) is over
DepthsAssigned == pc \in {"render", "done"}

\* C15: the depth assignment comes to an end for every definition, cyclic ones
\* and self-loops included. The entries ever put on the queue number at most
\* 1 + the valid edges, every loop iteration takes one entry off, so the loop
\* runs at most that many times; the pass is never stuck before its end; and
\* while the loop runs every depths.set is for a state not assigned before
\* (each state is dequeued-and-assigned at most once).
C15_BfsTerminates ==
    /\ enqueued <= 1 + Cardinality(ValidActions)
    /\ Len(queue) <= enqueued
    /\ ~DepthsAssigned => ENABLED NextBfs
    /\ pc = "bfs" => /\ depthWrites = Len(depths)
                     /\ depthWrites = Cardinality(visited)
                     /\ visited = {depths[i].state : i \in 1..Len(depths)}

\* the loop has ended on a cycle through initialState
C15_Witness ==
    /\ DepthsAssigned
    /\ enqueued = Cardinality(visited)
    /\ \E v, w \in ValidActions :
          /\ SourceOf(v) = definition.initialState
          /\ TargetOf(v) = SourceOf(w)
          /\ TargetOf(w) = definition.initialState
          /\ SourceOf(w) # definition.initialState

\* C16: first assignment wins. No step of a layout pass changes or removes an
\* entry of depths, and every depths.set adds an entry for a state that had
\* none: a later dequeue of the state and the unvisited pass leave its depth
\* as it is.
C16_FirstAssignmentWins ==
    [][/\ Len(depths') >= Len(depths)
       /\ \A i \in 1..Len(depths) : depths'[i] = depths[i]
       /\ depthWrites' - depthWrites = Len(depths') - Len(depths)
       /\ Cardinality({depths'[i].state : i \in 1..Len(depths')}) = Len(depths')]_vars

\* a state was enqueued twice, so dequeued again after it had its depth, and
\* the unvisited pass has gone over the assigned states
C16_Witness ==
    /\ DepthsAssigned
    /\ enqueued > Cardinality(visited)
    /\ Cardinality(Declared \cap visited) >= 2
    /\ depthWrites = Len(depths)

\* the same definition with the keys of states in the order perm
Reordered(def, perm) ==
    [def EXCEPT !.states = [k \in 1..Len(def.states) |-> def.states[perm[k]]]]

\* the depths map as the set of its <<state, depth>> pairs
DepthPairs(d) == {<<d[i].state, d[i].depth>> : i \in 1..Len(d)}

\* C17: the depth of each state does not depend on the insertion order of the
\* keys of states: the definition with its keys in any other order (same
\* initialState, same action list per state) gives every state the same depth.
C17_KeyOrderIndependent ==
    Done =>
        \A perm \in Permutations(1..Len(definition.states)) :
            DepthPairs(LayoutDepths(Reordered(definition, perm))) = DepthPairs(depths)

\* the node of a state name (the first with that name, as nodes.find returns it)
NodeOf(name) == nodes[FindNode(nodes, name)]

\* C18: the path of every non-loop edge starts at the right-center of the
\* source node, (from.x + nodeWidth, from.y + nodeHeight/2), and ends at the
\* left-center of the destination node, (to.x, to.y + nodeHeight/2). Path
\* numbers are doubled.
C18_Anchors ==
    Done =>
        \A i \in 1..Len(routed) :
            routed[i].from # routed[i].to =>
                /\ routed[i].d.pts[1] = 2 * (NodeOf(routed[i].from).x + nodeWidth)
                /\ routed[i].d.pts[2] = 2 * NodeOf(routed[i].from).y + nodeHeight
                /\ routed[i].d.pts[5] = 2 * NodeOf(routed[i].to).x
                /\ routed[i].d.pts[6] = 2 * NodeOf(routed[i].to).y + nodeHeight

\* The vertical displacement (doubled) of the control point of a quadratic
\* path from the midpoint of the straight line between its two anchors.
ControlDisplacement2(d) == d.pts[4] - (d.pts[2] + d.pts[6]) \div 2

\* the routed edges with the from and the to of routed[i]
SameDirection(i) ==
    {j \in 1..Len(routed) : routed[j].from = routed[i].from /\ routed[j].to = routed[i].to}

\* C19: for k >= 2 parallel edges from one node to another node, the vertical
\* displacements of the k control points from the midpoint of the straight
\* line between the anchors form a set symmetric about zero.
C19_FanSymmetric ==
    Done =>
        \A i \in 1..Len(routed) :
            (routed[i].from # routed[i].to /\ Cardinality(SameDirection(i)) >= 2) =>
                LET disp == {ControlDisplacement2(routed[j].d) : j \in SameDirection(i)}
                IN  \A o \in disp : (0 - o) \in disp

\* the horizontal distance (doubled) between the two ends of a path
Span2(d) == Abs(d.pts[5] - d.pts[1])

\* the routed non-loop edges that are the only edge of their endpoint pair
SimpleEdges ==
    {i \in 1..Len(routed) : routed[i].from # routed[i].to /\ GroupOf(i) = {i}}

\* C20: the control point of a simple edge (the only edge of its endpoint
\* pair, between two different nodes) lies 0.3 times the horizontal distance
\* between the two ends of the curve away from the midpoint of the anchors,
\* with no horizontal displacement; so of two simple edges the one spanning
\* the greater distance never bows less, and edges spanning the same distance
\* bow equally. (A self-loop is drawn by the loop branch of getEdgePath.)
C20_BowProportional ==
    Done =>
        /\ \A i \in SimpleEdges :
              /\ routed[i].d.cmd = "Q"
              /\ 10 * Abs(ControlDisplacement2(routed[i].d)) = 3 * Span2(routed[i].d)
              /\ 2 * routed[i].d.pts[3] = routed[i].d.pts[1] + routed[i].d.pts[5]
        /\ \A i, j \in SimpleEdges :
              /\ Span2(routed[i].d) >= Span2(routed[j].d)
                    => Abs(ControlDisplacement2(routed[i].d)) >= Abs(ControlDisplacement2(routed[j].d))
              /\ Span2(routed[i].d) = Span2(routed[j].d)
                    => Abs(ControlDisplacement2(routed[i].d)) = Abs(ControlDisplacement2(routed[j].d))

\* two simple edges of one diagram, one spanning more than the other and bowing more
C20_Witness ==
    /\ Done
    /\ \E i, j \in SimpleEdges :
          /\ Span2(routed[i].d) > Span2(routed[j].d)
          /\ Abs(ControlDisplacement2(routed[i].d)) > Abs(ControlDisplacement2(routed[j].d))
          /\ Abs(ControlDisplacement2(routed[j].d)) > 0

MathMin(S) == CHOOSE m \in S : \A x \in S : m <= x

\* the x coordinates in use, and the nodes and the y coordinates of the column at x
ColumnXs == {nodes[i].x : i \in 1..Len(nodes)}
ColumnOf(x) == {i \in 1..Len(nodes) : nodes[i].x = x}
ColumnYs(x) == {nodes[i].y : i \in ColumnOf(x)}

\* C21: every node has x = 80 + 180 * depth; within a column consecutive
\* members are exactly 130 apart vertically; and every column, whatever its
\* size, has the same vertical midpoint (top of its first node plus bottom of
\* its last, halved).
C21_Coordinates ==
    Done =>
        /\ \A i \in 1..Len(nodes) :
              /\ DepthsHas(depths, nodes[i].state)
              /\ nodes[i].x = 80 + horizontalGap * DepthsGet(depths, nodes[i].state)
        /\ \A i \in 1..(Len(nodes) - 1) :
              nodes[i].x = nodes[i + 1].x => nodes[i + 1].y - nodes[i].y = nodeHeight + verticalGap
        /\ \A x \in ColumnXs :
              /\ Cardinality(ColumnYs(x)) = Cardinality(ColumnOf(x))
              /\ \A y \in ColumnYs(x) :
                    y = MathMin(ColumnYs(x)) \/ (y - (nodeHeight + verticalGap)) \in ColumnYs(x)
        /\ \A x1, x2 \in ColumnXs :
              MathMin(ColumnYs(x1)) + MathMax(ColumnYs(x1)) = MathMin(ColumnYs(x2)) + MathMax(ColumnYs(x2))

\* a column of one node next to a column of two
C21_Witness ==
    /\ Done
    /\ \E x \in ColumnXs :
          /\ Cardinality(ColumnOf(x)) = 1
          /\ (x + horizontalGap) \in ColumnXs
          /\ Cardinality(ColumnOf(x + horizontalGap)) = 2

\* the largest assigned depth and the size of the largest column, from depths
MaxAssignedDepth == MathMax(DepthsValues(depths))
MaxColumnSize ==
    MathMax({Cardinality({i \in 1..Len(depths) : depths[i].depth = k}) : k \in DepthsValues(depths)})

\* C22: width = max(400, 160 + (maxDepth + 1) * 180) and
\* height = max(300, 100 + maxColumnSize * 130); a diagram of one node gets
\* the floor, 400 x 300.
C22_CanvasExtent ==
    Done =>
        /\ width = MathMax({400, 160 + (MaxAssignedDepth + 1) * 180})
        /\ height = MathMax({300, 100 + MaxColumnSize * 130})
        /\ Len(nodes) = 1 => (width = 400 /\ height = 300)

\* a diagram above the floor in both directions
C22_Witness == Done /\ width > 400 /\ height > 300 /\ MaxColumnSize >= 2

\* C25: after depth assignment (BFS plus the unvisited pass) every column
\* index from 0 to the largest assigned depth holds at least one node.
C25_ContiguousDepths ==
    Done =>
        \A k \in 0..MaxAssignedDepth :
            /\ \E i \in 1..Len(depths) : depths[i].depth = k
            /\ \E i \in 1..Len(nodes) : nodes[i].x = 80 + horizontalGap * k

\* three columns, the last one filled by the unvisited pass
C25_Witness ==
    /\ Done
    /\ MaxAssignedDepth >= 2
    /\ \E s \in Declared \ visited : DepthsGet(depths, s) = MaxAssignedDepth

\* C27: the 120 x 50 rectangles of any two different nodes are disjoint.
C27_NoOverlap ==
    Done =>
        \A i, j \in 1..Len(nodes) :
            i # j =>
                \/ nodes[i].x + nodeWidth <= nodes[j].x
                \/ nodes[j].x + nodeWidth <= nodes[i].x
                \/ nodes[i].y + nodeHeight <= nodes[j].y
                \/ nodes[j].y + nodeHeight <= nodes[i].y

\* three nodes, two of them sharing a column
C27_Witness ==
    /\ Done
    /\ Len(nodes) = 3
    /\ \E i, j \in 1..Len(nodes) : i # j /\ nodes[i].x = nodes[j].x
    /\ \E i, j \in 1..Len(nodes) : nodes[i].x # nodes[j].x

\* C26: the 120 x 50 rectangle of every laid-out node lies inside the canvas:
\* 0 <= x, x + 120 <= width, 0 <= y and y + 50 <= height, whatever the number
\* of nodes in a column.
C26_NodesInsideCanvas ==
    Done =>
        \A i \in 1..Len(nodes) :
            /\ 0 <= nodes[i].x
            /\ nodes[i].x + nodeWidth <= width
            /\ 0 <= nodes[i].y
            /\ nodes[i].y + nodeHeight <= height

\* C23: the interaction state is always one of idle, hoveringNode(s),
\* hoveringEdge(e): both cells are null at mount, and a hovered node and a
\* hovered edge are never recorded at the same time.
C23_OneInteractionState ==
    /\ (pc = "mount" \/ event.type = "mount") => (hoveredState = Null /\ hoveredEdge = NullEdge)
    /\ hoveredState = Null \/ hoveredEdge = NullEdge

\* C24: whenever a pointer event has left the pointer outside every node and
\* every edge, hoveredState and hoveredEdge are both null.
C24_IdleOutside ==
    (Mounted /\ event.type = "pointer" /\ pointer = NoPointer) =>
        (hoveredState = Null /\ hoveredEdge = NullEdge)

\* C28: whenever hoveredEdge is non-null it is one of the current edge
\* objects, and whenever hoveredState is non-null it names a current node.
C28_HoverIsCurrent ==
    Mounted =>
        /\ hoveredEdge # NullEdge =>
              /\ hoveredEdge[1] = memoDep
              /\ hoveredEdge[2] \in 1..Len(edgeList)
        /\ hoveredState # Null => \E i \in 1..Len(nodes) : nodes[i].state = hoveredState

\* C29: isLoading is true at every moment at which at least one refresh()
\* call of the mounted DataProvider is still awaiting its fetch.
C29_LoadingWhileRefreshing ==
    (dataProvider.mounted = "yes" /\ dataProvider.refreshing > 0) => dataProvider.isLoading

\* C30: at most one polling interval is active at any time, and none is
\* active while autoUpdate is false or after unmount.
C30_OnePollingInterval ==
    /\ Cardinality(dataProvider.intervals) <= 1
    /\ (~dataProvider.autoUpdate \/ dataProvider.mounted # "yes") => dataProvider.intervals = {}
    /\ (dataProvider.autoUpdate /\ dataProvider.mounted = "yes") =>
            dataProvider.intervals = {dataProvider.intervalRef}

\* autoUpdate was switched off and on again: the second interval is the only one
C30_Witness ==
    /\ dataProvider.mounted = "yes"
    /\ dataProvider.autoUpdate
    /\ dataProvider.toggles = 2
    /\ dataProvider.intervalRef = 2
    /\ dataProvider.intervals = {2}

====
